---- MODULE Spec2Model ----
(***************************************************************************)
(* EditorParameters::Save (FancyZonesLib/EditorParameters.cpp).            *)
(*                                                                         *)
(* Save snapshots the monitor topology and writes editor-parameters.json.  *)
(* A caller thread runs Save; Save owns one OnThreadExecutor worker thread *)
(* that is switched to the DPI-unaware context and runs the monitor reads  *)
(* submitted to it.  The operating system (virtual desktop, settings,      *)
(* monitors, DPI queries, cursor and foreground window) is the input: it   *)
(* is chosen in Init and stays the same for the whole behaviour.           *)
(***************************************************************************)
EXTENDS Integers, Sequences, FiniteSets, TLC

\* Largest number of monitors the enumeration yields.
MaxMonitors == 2
\* Number of consecutive Save calls one caller thread makes.
MaxCalls == 2

Callers == {1, 2}
CallerThread(t) == <<"caller", t>>
WorkerThread(t) == <<"worker", t>>
Threads == {CallerThread(t) : t \in Callers} \cup {WorkerThread(t) : t \in Callers}

Devices == {"DISPLAY1", "DISPLAY2"}
NullMonitor == 0
NoGuid == "none"
NoTask == "none"
NoRect == [left |-> 0, top |-> 0, right |-> 0, bottom |-> 0]
NoFile == [written |-> FALSE]

MkRect(l, t, r, b) == [left |-> l, top |-> t, right |-> r, bottom |-> b]

(***************************************************************************)
(* Thread DPI state: awareness context and hosting behaviour.              *)
(***************************************************************************)
ProcessDefaultDpi == [awareness |-> "per_monitor", hosting |-> "default"]
DpiUnawareMixed == [awareness |-> "unaware", hosting |-> "mixed"]

(***************************************************************************)
(* The monitors the operating system can report.  Each has the rectangles  *)
(* a DPI-unaware thread is given (virtualized to 96 DPI) and the           *)
(* rectangles a per-monitor-aware thread is given (physical pixels).       *)
(* DISPLAY1 is a 1920x1080 monitor at 100%; DISPLAY2 a 1921x1081 monitor   *)
(* at 150%, left of the origin.  Several enumerated monitors may report    *)
(* the same device (duplicated outputs of one adapter).                    *)
(***************************************************************************)
MonitorKind(device) ==
    IF device = "DISPLAY1"
    THEN [dpi |-> 96,
          unaware |-> [rcMonitor |-> MkRect(0, 0, 1920, 1080),
                       rcWork |-> MkRect(0, 0, 1920, 1040)],
          aware |-> [rcMonitor |-> MkRect(0, 0, 1920, 1080),
                     rcWork |-> MkRect(0, 0, 1920, 1040)]]
    ELSE [dpi |-> 144,
          unaware |-> [rcMonitor |-> MkRect(-1281, 0, 0, 721),
                       rcWork |-> MkRect(-1281, 28, 0, 721)],
          aware |-> [rcMonitor |-> MkRect(-1921, 0, 0, 1081),
                     rcWork |-> MkRect(-1921, 42, 0, 1081)]]

OsMonitors(devices, oks) ==
    { [szDevice |-> d, kind |-> MonitorKind(d), dpiOk |-> ok] : d \in devices, ok \in oks }

SeqsUpTo(S, n) == UNION { [1..k -> S] : k \in 0..n }

VARIABLES
    os,                   \* the operating system's state, read by Save
    active,               \* the caller threads that call Save
    callLimit,            \* Save calls each caller thread makes
    pc,                   \* each caller's position in Save
    dpiMode,              \* each thread's DPI awareness context and hosting
    workerAlive,          \* dpiUnawareThread exists
    wq,                   \* dpiUnawareThread's submitted, not yet started tasks
    wcur,                 \* the task dpiUnawareThread is running
    combinedWorkArea,     \* local of Save
    allMonitors,          \* local of Save
    displayDeviceIdxMap,  \* local of Save
    targetMonitor,        \* local of Save
    idx,                  \* position of the range-for over allMonitors
    argsJson,             \* local of Save
    reads,                \* the monitor-rectangle reads of the current call
    file,                 \* editor-parameters.json
    writes,               \* file writes made by the current call
    results               \* per caller, the outcome of each finished call

vars == <<os, active, callLimit, pc, dpiMode, workerAlive, wq, wcur,
          combinedWorkArea, allMonitors, displayDeviceIdxMap, targetMonitor,
          idx, argsJson, reads, file, writes, results>>

envVars == <<os, active, callLimit>>
localVars == <<combinedWorkArea, allMonitors, displayDeviceIdxMap, targetMonitor, idx, argsJson>>


(***************************************************************************)
(* Operating-system and library calls made by Save.                        *)
(***************************************************************************)
Min(S) == CHOOSE x \in S : \A y \in S : x <= y
Max(S) == CHOOSE x \in S : \A y \in S : x >= y

Handles == 1..Len(os.monitors)

\* GetMonitorInfo as seen by a thread whose DPI state is mode.
GetMonitorInfo(h, mode) ==
    LET m == os.monitors[h]
        rc == IF mode.awareness = "unaware" THEN m.kind.unaware ELSE m.kind.aware
    IN [szDevice |-> m.szDevice, rcWork |-> rc.rcWork, rcMonitor |-> rc.rcMonitor]

\* FancyZonesUtils::GetAllMonitorInfo: (handle, info) pairs in enumeration order.
GetAllMonitorInfo(mode) ==
    [h \in Handles |-> [first |-> h, second |-> GetMonitorInfo(h, mode)]]

\* FancyZonesUtils::GetAllMonitorsCombinedRect<member>: the bounding union.
GetAllMonitorsCombinedRect(mode, member) ==
    LET rects == { GetMonitorInfo(h, mode)[member] : h \in Handles }
    IN IF rects = {} THEN NoRect
       ELSE [left |-> Min({r.left : r \in rects}),
             top |-> Min({r.top : r \in rects}),
             right |-> Max({r.right : r \in rects}),
             bottom |-> Max({r.bottom : r \in rects})]

\* MonitorFromPoint(cursor, MONITOR_DEFAULTTOPRIMARY)
MonitorFromPoint ==
    IF os.cursorMonitor # NullMonitor THEN os.cursorMonitor ELSE os.primaryMonitor

\* MonitorFromWindow(GetForegroundWindow(), MONITOR_DEFAULTTOPRIMARY)
MonitorFromWindow ==
    IF os.foregroundMonitor # NullMonitor THEN os.foregroundMonitor ELSE os.primaryMonitor

\* DPIAware::GetScreenDPIForMonitor
GetScreenDPIForMonitor(h) ==
    IF os.monitors[h].dpiOk
    THEN [hr |-> "S_OK", dpi |-> os.monitors[h].kind.dpi]
    ELSE [hr |-> "E_FAIL", dpi |-> 0]

\* DPIAware::Convert: the value scaled by the monitor's scale factor dpi/96,
\* kept as an exact fraction.
Convert(h, value) == [num |-> value * os.monitors[h].kind.dpi, den |-> 96]

TruncF(q) ==
    IF q.num >= 0 THEN q.num \div q.den ELSE -((-q.num) \div q.den)

\* std::roundf: nearest integer, halves away from zero.
RoundF(q) ==
    IF q.num >= 0
    THEN (2 * q.num + q.den) \div (2 * q.den)
    ELSE -((2 * (-q.num) + q.den) \div (2 * q.den))

EmptyIdxMap == [d \in Devices |-> 0]

\* FancyZonesUtils::GetDisplayDeviceId: the device interface name of the
\* device, with an index suffix from its second occurrence on; the
\* occurrence count of the device is advanced.
GetDisplayDeviceId(szDevice, map) ==
    [id |-> [decorated |-> TRUE, base |-> szDevice, suffix |-> map[szDevice]],
     map |-> [map EXCEPT ![szDevice] = @ + 1]]

\* FancyZonesUtils::TrimDeviceId: drops the container decoration.
TrimDeviceId(deviceId) == [deviceId EXCEPT !.decorated = FALSE]

(***************************************************************************)
(* Pieces of Save.                                                         *)
(***************************************************************************)
SetAllThreadsDpi(modes, thread, ctx) == [th \in DOMAIN modes |-> ctx]
KeepThreadDpi(modes, thread, ctx) == modes

\* SetThreadDpiAwarenessContext + SetThreadDpiHostingBehavior: act on the
\* calling thread only.
SetThreadDpi(modes, thread, ctx) == [modes EXCEPT ![thread] = ctx]

KeptIdxMap(previous) == previous

\* std::unordered_map<std::wstring, DWORD> displayDeviceIdxMap: a local,
\* empty at every call.
NewDisplayDeviceIdxMap(previous) == EmptyIdxMap

DeviceIdCallByValue(szDevice, map) ==
    [id |-> GetDisplayDeviceId(szDevice, map).id, map |-> map]

\* GetDisplayDeviceId(monitorInfo.szDevice, displayDeviceIdxMap): the map is
\* passed by reference.
DeviceIdCall(szDevice, map) == GetDisplayDeviceId(szDevice, map)

IdxMapNotAdvanced(before, after) == before

\* The device id is taken before the DPI query, so a skipped monitor has
\* advanced the map too.
IdxMapAfterSkip(before, after) == after

\* if (monitor == targetMonitor) isSelected = true
IsTargetMonitor(monitor, target) == monitor = target

KeepFailedMonitor(monitors, monitorJson) == Append(monitors, monitorJson)

\* if (GetScreenDPIForMonitor(monitor, dpi) != S_OK) continue;
AfterDpiFailure(monitors, monitorJson) == monitors

NoTargetOrNotEnumerated(target) == target \notin Handles

\* if (!targetMonitor) return false
NoTargetMonitor(target) == target = NullMonitor

TargetFromWindowOnly(useCursor) == MonitorFromWindow

\* The target monitor of the configured policy.
SelectTargetMonitor(useCursor) ==
    IF useCursor THEN MonitorFromPoint ELSE MonitorFromWindow

SpannedJsonFromWorkArea(vd, workArea, monitorArea) ==
    [monitorName |-> "MultiMonitorDeviceID",
     virtualDesktop |-> vd,
     dpi |-> 0,
     top |-> workArea.top,
     left |-> workArea.left,
     workAreaWidth |-> workArea.right - workArea.left,
     workAreaHeight |-> workArea.bottom - workArea.top,
     monitorWidth |-> workArea.right - workArea.left,
     monitorHeight |-> workArea.bottom - workArea.top,
     isSelected |-> TRUE]

\* The synthetic record of spanned mode.
SpannedMonitorJson(vd, workArea, monitorArea) ==
    [monitorName |-> "MultiMonitorDeviceID",
     virtualDesktop |-> vd,
     dpi |-> 0,
     top |-> workArea.top,
     left |-> workArea.left,
     workAreaWidth |-> workArea.right - workArea.left,
     workAreaHeight |-> workArea.bottom - workArea.top,
     monitorWidth |-> monitorArea.right - monitorArea.left,
     monitorHeight |-> monitorArea.bottom - monitorArea.top,
     isSelected |-> TRUE]

MonitorJsonTruncated(monitor, info, name, vd, selected, dpi) ==
    [monitorName |-> name,
     virtualDesktop |-> vd,
     dpi |-> dpi,
     top |-> info.rcWork.top,
     left |-> info.rcWork.left,
     workAreaWidth |-> info.rcWork.right - info.rcWork.left,
     workAreaHeight |-> info.rcWork.bottom - info.rcWork.top,
     monitorWidth |-> TruncF(Convert(monitor, info.rcMonitor.right - info.rcMonitor.left)),
     monitorHeight |-> TruncF(Convert(monitor, info.rcMonitor.bottom - info.rcMonitor.top)),
     isSelected |-> selected]

\* The record of one monitor whose DPI query succeeded.
MonitorJson(monitor, info, name, vd, selected, dpi) ==
    [monitorName |-> name,
     virtualDesktop |-> vd,
     dpi |-> dpi,
     top |-> info.rcWork.top,
     left |-> info.rcWork.left,
     workAreaWidth |-> info.rcWork.right - info.rcWork.left,
     workAreaHeight |-> info.rcWork.bottom - info.rcWork.top,
     monitorWidth |-> RoundF(Convert(monitor, info.rcMonitor.right - info.rcMonitor.left)),
     monitorHeight |-> RoundF(Convert(monitor, info.rcMonitor.bottom - info.rcMonitor.top)),
     isSelected |-> selected]

NoArgs == [processId |-> 0, spanZonesAcrossMonitors |-> FALSE, monitors |-> <<>>]

ReadEntry(member, thread) == [member |-> member, thread |-> thread, mode |-> dpiMode[thread]]

WorkerIdle(t) == wq[t] = <<>> /\ wcur[t] = NoTask


(***************************************************************************)
(* Initial states: every operating-system input within the bounds.         *)
(***************************************************************************)
\* What the cursor, the foreground window and the primary monitor resolve to:
\* NullMonitor, one of the n enumerated monitors, or a monitor not enumerated.
TargetInputs(n) == (0..(n + 1)) \X (0..(n + 1)) \X {NullMonitor, 1}

OsStates(monitorSeqs) ==
    UNION { { [virtualDesktopId |-> vd,
               processId |-> 4242,
               spanZonesAcrossMonitors |-> span,
               use_cursorpos_editor_startupscreen |-> useCursor,
               monitors |-> ms,
               cursorMonitor |-> tgt[1],
               foregroundMonitor |-> tgt[2],
               primaryMonitor |-> tgt[3]] :
                 vd \in {NoGuid, "{vd-1}"},
                 span \in BOOLEAN,
                 useCursor \in BOOLEAN,
                 tgt \in TargetInputs(Len(ms)) } : ms \in monitorSeqs }

InitLocals ==
    /\ pc = [t \in Callers |-> "idle"]
    /\ dpiMode = [th \in Threads |-> ProcessDefaultDpi]
    /\ workerAlive = [t \in Callers |-> FALSE]
    /\ wq = [t \in Callers |-> <<>>]
    /\ wcur = [t \in Callers |-> NoTask]
    /\ combinedWorkArea = [t \in Callers |-> NoRect]
    /\ allMonitors = [t \in Callers |-> <<>>]
    /\ displayDeviceIdxMap = [t \in Callers |-> EmptyIdxMap]
    /\ targetMonitor = [t \in Callers |-> NullMonitor]
    /\ idx = [t \in Callers |-> 1]
    /\ argsJson = [t \in Callers |-> NoArgs]
    /\ reads = [t \in Callers |-> <<>>]
    /\ file = NoFile
    /\ writes = [t \in Callers |-> 0]
    /\ results = [t \in Callers |-> <<>>]

\* One caller thread making MaxCalls consecutive calls.
Init ==
    /\ os \in OsStates(SeqsUpTo(OsMonitors(Devices, BOOLEAN), MaxMonitors))
    /\ active = {1}
    /\ callLimit = MaxCalls
    /\ InitLocals

\* Two caller threads, one call each, all DPI queries succeeding.
InitConcurrent ==
    /\ os \in OsStates(SeqsUpTo(OsMonitors(Devices, {TRUE}), MaxMonitors))
    /\ os.cursorMonitor = os.foregroundMonitor
    /\ active = Callers
    /\ callLimit = 1
    /\ InitLocals

(***************************************************************************)
(* Save, on caller thread t.                                               *)
(***************************************************************************)

\* Entry: the virtual desktop id, then dpiUnawareThread and its first task.
SaveBegin(t) ==
    /\ pc[t] = "idle"
    /\ Len(results[t]) < callLimit
    /\ reads' = [reads EXCEPT ![t] = <<>>]
    /\ writes' = [writes EXCEPT ![t] = 0]
    /\ combinedWorkArea' = [combinedWorkArea EXCEPT ![t] = NoRect]
    /\ allMonitors' = [allMonitors EXCEPT ![t] = <<>>]
    /\ displayDeviceIdxMap' =
          [displayDeviceIdxMap EXCEPT ![t] = NewDisplayDeviceIdxMap(displayDeviceIdxMap[t])]
    /\ targetMonitor' = [targetMonitor EXCEPT ![t] = NullMonitor]
    /\ idx' = [idx EXCEPT ![t] = 1]
    /\ argsJson' = [argsJson EXCEPT ![t] = NoArgs]
    /\ IF os.virtualDesktopId = NoGuid
       THEN /\ results' = [results EXCEPT ![t] =
                              Append(@, [ret |-> FALSE, written |-> NoFile, writes |-> 0,
                                         reads |-> <<>>, target |-> NullMonitor])]
            /\ UNCHANGED <<pc, dpiMode, workerAlive, wq>>
       ELSE /\ workerAlive' = [workerAlive EXCEPT ![t] = TRUE]
            /\ dpiMode' = [dpiMode EXCEPT ![WorkerThread(t)] = ProcessDefaultDpi]
            /\ wq' = [wq EXCEPT ![t] = <<"setDpi">>]
            /\ pc' = [pc EXCEPT ![t] = "waitDpi"]
            /\ UNCHANGED results
    /\ UNCHANGED <<envVars, wcur, file>>

\* dpiUnawareThread takes its next task.
WorkerTake(t) ==
    /\ workerAlive[t]
    /\ wcur[t] = NoTask
    /\ wq[t] # <<>>
    /\ wcur' = [wcur EXCEPT ![t] = Head(wq[t])]
    /\ wq' = [wq EXCEPT ![t] = Tail(wq[t])]
    /\ UNCHANGED <<envVars, localVars, pc, dpiMode, workerAlive, reads, file, writes, results>>

\* Task 1: the switch to the DPI-unaware context with mixed hosting.
WorkerSetDpi(t) ==
    /\ wcur[t] = "setDpi"
    /\ dpiMode' = SetThreadDpi(dpiMode, WorkerThread(t), DpiUnawareMixed)
    /\ wcur' = [wcur EXCEPT ![t] = NoTask]
    /\ UNCHANGED <<envVars, localVars, pc, workerAlive, wq, reads, file, writes, results>>

\* Task 2 of spanned mode: the combined work area.
WorkerCombinedWorkArea(t) ==
    /\ wcur[t] = "combinedWorkArea"
    /\ combinedWorkArea' = [combinedWorkArea EXCEPT ![t] =
                               GetAllMonitorsCombinedRect(dpiMode[WorkerThread(t)], "rcWork")]
    /\ reads' = [reads EXCEPT ![t] = Append(@, ReadEntry("combinedWorkArea", WorkerThread(t)))]
    /\ wcur' = [wcur EXCEPT ![t] = NoTask]
    /\ UNCHANGED <<envVars, allMonitors, displayDeviceIdxMap, targetMonitor, idx, argsJson,
                   pc, dpiMode, workerAlive, wq, file, writes, results>>

\* Task 2 of non-spanned mode: the monitor enumeration.
WorkerGetAllMonitorInfo(t) ==
    /\ wcur[t] = "allMonitors"
    /\ allMonitors' = [allMonitors EXCEPT ![t] = GetAllMonitorInfo(dpiMode[WorkerThread(t)])]
    /\ reads' = [reads EXCEPT ![t] = Append(@, ReadEntry("allMonitors", WorkerThread(t)))]
    /\ wcur' = [wcur EXCEPT ![t] = NoTask]
    /\ UNCHANGED <<envVars, combinedWorkArea, displayDeviceIdxMap, targetMonitor, idx, argsJson,
                   pc, dpiMode, workerAlive, wq, file, writes, results>>

\* The first wait() returned: read the settings, submit the second task.
SubmitRead(t) ==
    /\ pc[t] = "waitDpi"
    /\ WorkerIdle(t)
    /\ argsJson' = [argsJson EXCEPT ![t] =
                       [processId |-> os.processId,
                        spanZonesAcrossMonitors |-> os.spanZonesAcrossMonitors,
                        monitors |-> <<>>]]
    /\ IF os.spanZonesAcrossMonitors
       THEN /\ wq' = [wq EXCEPT ![t] = Append(@, "combinedWorkArea")]
            /\ pc' = [pc EXCEPT ![t] = "waitCombined"]
       ELSE /\ wq' = [wq EXCEPT ![t] = Append(@, "allMonitors")]
            /\ pc' = [pc EXCEPT ![t] = "waitAllMonitors"]
    /\ UNCHANGED <<envVars, combinedWorkArea, allMonitors, displayDeviceIdxMap, targetMonitor,
                   idx, dpiMode, workerAlive, wcur, reads, file, writes, results>>

\* Spanned mode after the wait(): the combined monitor area, read by the
\* caller itself, and the synthetic record.
BuildSpanned(t) ==
    /\ pc[t] = "waitCombined"
    /\ WorkerIdle(t)
    /\ LET combinedMonitorArea ==
               GetAllMonitorsCombinedRect(dpiMode[CallerThread(t)], "rcMonitor")
       IN argsJson' = [argsJson EXCEPT ![t].monitors =
                          Append(@, SpannedMonitorJson(os.virtualDesktopId,
                                                       combinedWorkArea[t],
                                                       combinedMonitorArea))]
    /\ reads' = [reads EXCEPT ![t] = Append(@, ReadEntry("combinedMonitorArea", CallerThread(t)))]
    /\ pc' = [pc EXCEPT ![t] = "write"]
    /\ UNCHANGED <<envVars, combinedWorkArea, allMonitors, displayDeviceIdxMap, targetMonitor,
                   idx, dpiMode, workerAlive, wq, wcur, file, writes, results>>

\* Non-spanned mode after the wait(): the target monitor, or return false.
SelectTarget(t) ==
    /\ pc[t] = "waitAllMonitors"
    /\ WorkerIdle(t)
    /\ LET target == SelectTargetMonitor(os.use_cursorpos_editor_startupscreen)
       IN /\ targetMonitor' = [targetMonitor EXCEPT ![t] = target]
          /\ IF NoTargetMonitor(target)
             THEN /\ results' = [results EXCEPT ![t] =
                                    Append(@, [ret |-> FALSE, written |-> NoFile,
                                               writes |-> writes[t],
                                               reads |-> reads[t], target |-> target])]
                  /\ workerAlive' = [workerAlive EXCEPT ![t] = FALSE]
                  /\ pc' = [pc EXCEPT ![t] = "idle"]
             ELSE /\ pc' = [pc EXCEPT ![t] =
                               IF Len(allMonitors[t]) = 0 THEN "write" ELSE "loop"]
                  /\ UNCHANGED <<results, workerAlive>>
    /\ idx' = [idx EXCEPT ![t] = 1]
    /\ UNCHANGED <<envVars, combinedWorkArea, allMonitors, displayDeviceIdxMap, argsJson,
                   dpiMode, wq, wcur, reads, file, writes>>

\* One iteration of the loop over allMonitors.
LoopStep(t) ==
    /\ pc[t] = "loop"
    /\ idx[t] <= Len(allMonitors[t])
    /\ LET monitor == allMonitors[t][idx[t]].first
           monitorInfo == allMonitors[t][idx[t]].second
           call == DeviceIdCall(monitorInfo.szDevice, displayDeviceIdxMap[t])
           selected == IsTargetMonitor(monitor, targetMonitor[t])
           name == TrimDeviceId(call.id)
           q == GetScreenDPIForMonitor(monitor)
           unfinished == [monitorName |-> name,
                          virtualDesktop |-> os.virtualDesktopId,
                          dpi |-> 0, top |-> 0, left |-> 0,
                          workAreaWidth |-> 0, workAreaHeight |-> 0,
                          monitorWidth |-> 0, monitorHeight |-> 0,
                          isSelected |-> selected]
       IN IF q.hr # "S_OK"
          THEN /\ argsJson' = [argsJson EXCEPT ![t].monitors = AfterDpiFailure(@, unfinished)]
               /\ displayDeviceIdxMap' =
                     [displayDeviceIdxMap EXCEPT ![t] = IdxMapAfterSkip(@, call.map)]
          ELSE /\ argsJson' = [argsJson EXCEPT ![t].monitors =
                                  Append(@, MonitorJson(monitor, monitorInfo, name,
                                                        os.virtualDesktopId, selected, q.dpi))]
               /\ displayDeviceIdxMap' = [displayDeviceIdxMap EXCEPT ![t] = call.map]
    /\ idx' = [idx EXCEPT ![t] = @ + 1]
    /\ pc' = [pc EXCEPT ![t] = IF idx[t] + 1 > Len(allMonitors[t]) THEN "write" ELSE "loop"]
    /\ UNCHANGED <<envVars, combinedWorkArea, allMonitors, targetMonitor,
                   dpiMode, workerAlive, wq, wcur, reads, file, writes, results>>

\* json::to_file and return true; dpiUnawareThread ends with the call.
WriteFile(t) ==
    /\ pc[t] = "write"
    /\ file' = [written |-> TRUE, by |-> t, args |-> argsJson[t]]
    /\ writes' = [writes EXCEPT ![t] = @ + 1]
    /\ results' = [results EXCEPT ![t] =
                      Append(@, [ret |-> TRUE,
                                 written |-> [written |-> TRUE, by |-> t, args |-> argsJson[t]],
                                 writes |-> writes[t] + 1,
                                 reads |-> reads[t], target |-> targetMonitor[t]])]
    /\ workerAlive' = [workerAlive EXCEPT ![t] = FALSE]
    /\ pc' = [pc EXCEPT ![t] = "idle"]
    /\ UNCHANGED <<envVars, localVars, dpiMode, wq, wcur, reads>>

Next ==
    \/ \E t \in active : SaveBegin(t)
    \/ \E t \in active : WorkerTake(t)
    \/ \E t \in active : WorkerSetDpi(t)
    \/ \E t \in active : WorkerCombinedWorkArea(t)
    \/ \E t \in active : WorkerGetAllMonitorInfo(t)
    \/ \E t \in active : SubmitRead(t)
    \/ \E t \in active : BuildSpanned(t)
    \/ \E t \in active : SelectTarget(t)
    \/ \E t \in active : LoopStep(t)
    \/ \E t \in active : WriteFile(t)

Spec == Init /\ [][Next]_vars

SpecConcurrent == InitConcurrent /\ [][Next]_vars


(***************************************************************************)
(* Properties of Save, stated over the operating-system inputs.            *)
(***************************************************************************)

\* The finished calls, as <<caller, call number>>.
Finished == { c \in Callers \X (1..MaxCalls) : c[1] \in active /\ c[2] <= Len(results[c[1]]) }
Outcome(c) == results[c[1]][c[2]]
Written(c) == Outcome(c).written.args.monitors

\* The monitor the configured policy designates.
PolicyTarget ==
    LET at == IF os.use_cursorpos_editor_startupscreen
              THEN os.cursorMonitor ELSE os.foregroundMonitor
    IN IF at # NullMonitor THEN at ELSE os.primaryMonitor

\* The enumerated monitors whose DPI query succeeds, in enumeration order.
RECURSIVE OkFrom(_)
OkFrom(h) ==
    IF h > Len(os.monitors) THEN <<>>
    ELSE IF os.monitors[h].dpiOk THEN <<h>> \o OkFrom(h + 1) ELSE OkFrom(h + 1)
OkHandles == OkFrom(1)

SucceededNonSpanned(c) == Outcome(c).ret /\ ~os.spanZonesAcrossMonitors
SucceededSpanned(c) == Outcome(c).ret /\ os.spanZonesAcrossMonitors

\* C1 as stated: every successful non-spanned Save writes exactly one record
\* with isSelected = true, and it is the record of the monitor whose handle
\* is the target of the configured policy.
C1_ExactlyOneSelected ==
    \A c \in Finished :
        SucceededNonSpanned(c) =>
            /\ Len(Written(c)) = Len(OkHandles)
            /\ \E j \in DOMAIN Written(c) :
                  /\ Written(c)[j].isSelected
                  /\ OkHandles[j] = PolicyTarget
                  /\ \A k \in DOMAIN Written(c) : Written(c)[k].isSelected => k = j

\* C1 amended: a successful non-spanned Save writes at most one record with
\* isSelected = true; it writes one exactly when the target of the configured
\* policy is an enumerated monitor whose DPI query succeeded, and that record
\* is the one built from the target.
C1_AtMostOneSelected ==
    \A c \in Finished :
        SucceededNonSpanned(c) =>
            LET sel == { j \in DOMAIN Written(c) : Written(c)[j].isSelected }
            IN /\ Cardinality(sel) <= 1
               /\ Cardinality(sel) = 1 <=>
                     \E h \in Handles : h = PolicyTarget /\ os.monitors[h].dpiOk
               /\ Len(Written(c)) = Len(OkHandles)
               /\ \A j \in sel : OkHandles[j] = PolicyTarget

\* C1 witness: the cursor policy designates the first of two monitors, the
\* foreground window is on the second; the first one's record is written
\* selected, the second one's not.
C1_Witness ==
    \E c \in Finished :
        /\ SucceededNonSpanned(c)
        /\ os.use_cursorpos_editor_startupscreen
        /\ os.cursorMonitor = 1
        /\ os.foregroundMonitor = 2
        /\ Len(Written(c)) = 2
        /\ Written(c)[1].isSelected
        /\ ~Written(c)[2].isSelected

\* C2: Save returns false and writes nothing exactly when the virtual
\* desktop id is unavailable, or spanning is off and no target monitor is
\* resolved; otherwise it returns true after exactly one file write, made as
\* the last step with every record built.
C2_ReturnAndWrite ==
    /\ \A c \in Finished :
          LET r == Outcome(c)
              fatal == \/ os.virtualDesktopId = NoGuid
                       \/ ~os.spanZonesAcrossMonitors /\ PolicyTarget = NullMonitor
          IN /\ r.ret = ~fatal
             /\ ~r.ret => r.writes = 0 /\ r.written = NoFile
             /\ r.ret =>
                   /\ r.writes = 1
                   /\ r.written.written
                   /\ r.written.args.spanZonesAcrossMonitors = os.spanZonesAcrossMonitors
                   /\ Len(r.written.args.monitors) =
                         IF os.spanZonesAcrossMonitors THEN 1 ELSE Len(OkHandles)
    \* no write before the return
    /\ \A t \in active : pc[t] # "idle" => writes[t] = 0
    /\ (\A t \in active : \A k \in DOMAIN results[t] : ~results[t][k].ret) => file = NoFile

\* C2 witness: a spanned call with no resolvable target monitor and a failed
\* DPI query has returned true, and a call with zero monitors enumerated and
\* a resolved target would too.
C2_Witness ==
    \E c \in Finished :
        /\ Outcome(c).ret
        /\ os.spanZonesAcrossMonitors
        /\ PolicyTarget = NullMonitor
        /\ \E h \in Handles : ~os.monitors[h].dpiOk
        /\ file = Outcome(c).written

\* C4: in non-spanned mode the written records are those of the monitors
\* whose DPI query succeeded, one each, in enumeration order, and isSelected
\* of each is decided by its handle alone.
C4_SubsequenceOfDpiOk ==
    \A c \in Finished :
        SucceededNonSpanned(c) =>
            /\ Len(Written(c)) = Len(OkHandles)
            /\ \A j \in DOMAIN Written(c) :
                  LET h == OkHandles[j]
                  IN /\ Written(c)[j].monitorName.base = os.monitors[h].szDevice
                     /\ Written(c)[j].dpi = os.monitors[h].kind.dpi
                     /\ Written(c)[j].isSelected = (h = PolicyTarget)

\* C4 witness: a monitor whose DPI query failed precedes the target monitor,
\* whose record is written selected.
C4_Witness ==
    \E c \in Finished :
        /\ SucceededNonSpanned(c)
        /\ Len(os.monitors) = 2
        /\ ~os.monitors[1].dpiOk
        /\ os.monitors[2].dpiOk
        /\ PolicyTarget = 2
        /\ Len(Written(c)) = 1
        /\ Written(c)[1].isSelected


\* v is the least (greatest) element of S.
LowerBoundAttained(v, S) == v \in S /\ \A x \in S : v <= x
UpperBoundAttained(v, S) == v \in S /\ \A x \in S : v >= x

\* rec's work-area fields are those of the bounding union of the work areas
\* in coordinate space ws, its monitor fields those of the bounding union of
\* the full bounds in coordinate space ms.
SpannedGeometry(rec, ws, ms) ==
    LET work == { os.monitors[h].kind[ws].rcWork : h \in Handles }
        full == { os.monitors[h].kind[ms].rcMonitor : h \in Handles }
    IN /\ LowerBoundAttained(rec.left, { r.left : r \in work })
       /\ LowerBoundAttained(rec.top, { r.top : r \in work })
       /\ UpperBoundAttained(rec.left + rec.workAreaWidth, { r.right : r \in work })
       /\ UpperBoundAttained(rec.top + rec.workAreaHeight, { r.bottom : r \in work })
       /\ \E l \in { r.left : r \in full }, r \in { r.right : r \in full } :
             /\ LowerBoundAttained(l, { x.left : x \in full })
             /\ UpperBoundAttained(r, { x.right : x \in full })
             /\ rec.monitorWidth = r - l
       /\ \E u \in { r.top : r \in full }, b \in { r.bottom : r \in full } :
             /\ LowerBoundAttained(u, { x.top : x \in full })
             /\ UpperBoundAttained(b, { x.bottom : x \in full })
             /\ rec.monitorHeight = b - u

SpannedShape(c) ==
    /\ Len(Written(c)) = 1
    /\ Written(c)[1].monitorName = "MultiMonitorDeviceID"
    /\ Written(c)[1].dpi = 0
    /\ Written(c)[1].isSelected

\* C3 as stated: in spanned mode one record, reserved name, dpi 0, selected,
\* work-area fields from the union of the work areas and monitor fields from
\* the union of the full bounds, both in the same (DPI-unaware) coordinate
\* space.
C3_SameCoordinateSpace ==
    \A c \in Finished :
        SucceededSpanned(c) =>
            /\ SpannedShape(c)
            /\ Handles # {} => SpannedGeometry(Written(c)[1], "unaware", "unaware")

\* C3 amended: in spanned mode one record, reserved name, dpi 0, selected;
\* the work-area fields are those of the union of the work areas as a
\* DPI-unaware thread is given them, the monitor fields those of the union
\* of the full bounds as the (per-monitor aware) caller thread is given them.
C3_UnionPerReader ==
    \A c \in Finished :
        SucceededSpanned(c) =>
            /\ SpannedShape(c)
            /\ Handles # {} => SpannedGeometry(Written(c)[1], "unaware", "aware")

\* C3 witness: a spanned call over a 100% and a 150% monitor has written the
\* record with the 3201-wide work area and the 3841-wide monitor area.
C3_Witness ==
    \E c \in Finished :
        /\ SucceededSpanned(c)
        /\ { os.monitors[h].szDevice : h \in Handles } = Devices
        /\ Written(c)[1].left = -1281
        /\ Written(c)[1].workAreaWidth = 3201
        /\ Written(c)[1].workAreaHeight = 1040
        /\ Written(c)[1].monitorWidth = 3841
        /\ Written(c)[1].monitorHeight = 1081

\* Records j and k of a written sequence are of the same device.
SameBase(c, j, k) == Written(c)[j].monitorName.base = Written(c)[k].monitorName.base

\* C5: within one non-spanned Save the written monitorNames are pairwise
\* distinct: the first enumerated monitor of a device keeps the identifier
\* without suffix, every later one carries a suffix of its own.
C5_DistinctNames ==
    \A c \in Finished :
        SucceededNonSpanned(c) =>
          /\ Len(Written(c)) = Len(OkHandles)
          /\ \A j \in DOMAIN Written(c) :
                LET h == OkHandles[j]
                    first == \A g \in 1..(h - 1) : os.monitors[g].szDevice # os.monitors[h].szDevice
                IN /\ ~Written(c)[j].monitorName.decorated
                   /\ first <=> Written(c)[j].monitorName.suffix = 0
                   /\ \A k \in DOMAIN Written(c) :
                         k # j => Written(c)[k].monitorName # Written(c)[j].monitorName

\* C5 witness: two monitors of the same device, both written.
C5_Witness ==
    \E c \in Finished :
        /\ SucceededNonSpanned(c)
        /\ Len(Written(c)) = 2
        /\ SameBase(c, 1, 2)
        /\ Written(c)[1].monitorName.suffix = 0
        /\ Written(c)[2].monitorName.suffix # 0

\* C6: consecutive Save calls of one caller with the same inputs return the
\* same value and write the same records.
C6_Idempotent ==
    \A t \in active :
        \A k \in DOMAIN results[t] :
            k > 1 =>
                /\ results[t][k].ret = results[t][k - 1].ret
                /\ results[t][k].writes = results[t][k - 1].writes
                /\ results[t][k].written = results[t][k - 1].written

\* C6 witness: two successful non-spanned calls, each writing two records of
\* the same device.
C6_Witness ==
    /\ Len(results[1]) >= 2
    /\ results[1][1].ret
    /\ results[1][2].ret
    /\ ~os.spanZonesAcrossMonitors
    /\ Len(results[1][2].written.args.monitors) = 2
    /\ os.monitors[1].szDevice = os.monitors[2].szDevice

\* k is q rounded to the nearest integer, halves away from zero (q >= 0).
NearestHalfAway(k, num, den) ==
    /\ 2 * (k * den - num) <= den
    /\ 2 * (num - k * den) < den

\* C9: every non-spanned record has the monitor's effective DPI, the raw
\* work-area rectangle unscaled, and the raw full-bounds width and height
\* times dpi/96 rounded to nearest, halves away from zero.
C9_Geometry ==
    \A c \in Finished :
        SucceededNonSpanned(c) =>
          /\ Len(Written(c)) = Len(OkHandles)
          /\ \A j \in DOMAIN Written(c) :
                LET m == os.monitors[OkHandles[j]]
                    raw == m.kind.unaware
                    rec == Written(c)[j]
                IN /\ rec.dpi = m.kind.dpi
                   /\ rec.top = raw.rcWork.top
                   /\ rec.left = raw.rcWork.left
                   /\ rec.workAreaWidth = raw.rcWork.right - raw.rcWork.left
                   /\ rec.workAreaHeight = raw.rcWork.bottom - raw.rcWork.top
                   /\ NearestHalfAway(rec.monitorWidth,
                                      (raw.rcMonitor.right - raw.rcMonitor.left) * rec.dpi, 96)
                   /\ NearestHalfAway(rec.monitorHeight,
                                      (raw.rcMonitor.bottom - raw.rcMonitor.top) * rec.dpi, 96)
                   /\ rec.dpi = 96 =>
                         /\ rec.monitorWidth = raw.rcMonitor.right - raw.rcMonitor.left
                         /\ rec.monitorHeight = raw.rcMonitor.bottom - raw.rcMonitor.top

\* C9 witness: the 1920x1080 monitor with work area 1920x1040 at 96 DPI, and
\* the 1281x721 monitor at 144 DPI whose scaled sides 1921.5 and 1081.5 are
\* halves.
C9_Witness ==
    \E c \in Finished :
        /\ SucceededNonSpanned(c)
        /\ \E j \in DOMAIN Written(c) :
              /\ Written(c)[j].dpi = 96
              /\ Written(c)[j].workAreaHeight = 1040
              /\ Written(c)[j].monitorWidth = 1920
              /\ Written(c)[j].monitorHeight = 1080
        /\ \E j \in DOMAIN Written(c) :
              /\ Written(c)[j].dpi = 144
              /\ Written(c)[j].monitorWidth = 1922
              /\ Written(c)[j].monitorHeight = 1082

\* C10: the monitorName of a written record depends only on the device of
\* its monitor and on how many monitors of that device were enumerated
\* before it, whatever their DPI query outcomes.
C10_NameIndependentOfDpi ==
    \A c \in Finished :
        SucceededNonSpanned(c) =>
          /\ Len(Written(c)) = Len(OkHandles)
          /\ \A j \in DOMAIN Written(c) :
                LET h == OkHandles[j]
                    before == { g \in 1..(h - 1) :
                                  os.monitors[g].szDevice = os.monitors[h].szDevice }
                IN Written(c)[j].monitorName =
                      [decorated |-> FALSE,
                       base |-> os.monitors[h].szDevice,
                       suffix |-> Cardinality(before)]

\* C10 witness: the only written record is the second monitor of its device;
\* the first one was skipped and the record carries the suffix all the same.
C10_Witness ==
    \E c \in Finished :
        /\ SucceededNonSpanned(c)
        /\ Len(os.monitors) = 2
        /\ os.monitors[1].szDevice = os.monitors[2].szDevice
        /\ ~os.monitors[1].dpiOk
        /\ Len(Written(c)) = 1
        /\ Written(c)[1].monitorName.suffix = 1


Range(f) == { f[i] : i \in DOMAIN f }

\* A read of the call of t made by its worker thread in the DPI-unaware,
\* mixed-hosting state.
OnUnawareWorker(t, entry) ==
    entry.thread = WorkerThread(t) /\ entry.mode = DpiUnawareMixed

\* The caller of t is past a wait() only with the worker idle and the read
\* it waited for done.
ResumedAfterRead(t) ==
    /\ pc[t] \in {"loop", "write"} => WorkerIdle(t)
    /\ pc[t] = "loop" => \E e \in Range(reads[t]) : e.member = "allMonitors"
    /\ pc[t] = "write" /\ os.spanZonesAcrossMonitors =>
          \E e \in Range(reads[t]) : e.member = "combinedWorkArea"

\* C7 as stated: every monitor-rectangle read that feeds the record, the
\* combined full-bounds rectangle of spanned mode included, runs on the
\* worker after its switch to the DPI-unaware mode; the caller resumes only
\* after the read; the caller's own DPI mode never changes.
C7_AllReadsOnWorker ==
    \A t \in active :
        /\ \A e \in Range(reads[t]) : OnUnawareWorker(t, e)
        /\ ResumedAfterRead(t)
        /\ dpiMode[CallerThread(t)] = ProcessDefaultDpi

\* C7 amended: the enumeration of non-spanned mode and the combined work
\* area of spanned mode are read on the worker after its switch to the
\* DPI-unaware mode, and the caller resumes only after the read; the
\* combined full-bounds rectangle of spanned mode is read by the caller
\* thread itself, in its own DPI mode, which Save never changes.
C7_WorkerReadsOnly ==
    \A t \in active :
        /\ \A e \in Range(reads[t]) :
              IF e.member = "combinedMonitorArea"
              THEN e.thread = CallerThread(t) /\ e.mode = ProcessDefaultDpi
              ELSE OnUnawareWorker(t, e)
        /\ ResumedAfterRead(t)
        /\ dpiMode[CallerThread(t)] = ProcessDefaultDpi

\* C7 witness: a spanned call about to write, with the work area read on the
\* worker and the full bounds read on the caller thread.
C7_Witness ==
    /\ pc[1] = "write"
    /\ os.spanZonesAcrossMonitors
    /\ Len(os.monitors) = 2
    /\ Len(reads[1]) = 2
    /\ reads[1][1] = [member |-> "combinedWorkArea", thread |-> WorkerThread(1),
                      mode |-> DpiUnawareMixed]
    /\ reads[1][2] = [member |-> "combinedMonitorArea", thread |-> CallerThread(1),
                      mode |-> ProcessDefaultDpi]

\* The worker of t is in the middle of a monitor read in DPI-unaware mode.
Reading(t) ==
    /\ workerAlive[t]
    /\ wcur[t] \in {"allMonitors", "combinedWorkArea"}
    /\ dpiMode[WorkerThread(t)].awareness = "unaware"

SwitchPending(t) == wcur[t] = "setDpi" \/ "setDpi" \in Range(wq[t])

\* The switch made for a call is seen by that call's worker only.
SwitchConfined ==
    \A t \in active :
        /\ dpiMode[CallerThread(t)] = ProcessDefaultDpi
        /\ workerAlive[t] =>
              (dpiMode[WorkerThread(t)] = DpiUnawareMixed <=> ~SwitchPending(t))
        /\ \A e \in Range(reads[t]) :
              e.thread = WorkerThread(t) => e.mode = DpiUnawareMixed

\* C8 as stated: with two Save calls running concurrently, never are two
\* monitor reads in DPI-unaware mode in progress at the same time, and the
\* switch of one call is not observed by the other call's threads.
C8_Serialized ==
    /\ \A t, u \in active : Reading(t) /\ Reading(u) => t = u
    /\ SwitchConfined

\* C8 amended: concurrent Save calls are not serialized, each reads on its
\* own worker thread and the reads may overlap; the switch made for one call
\* changes the DPI mode of that call's worker only, never that of a caller
\* thread or of the other call's worker.
C8_Confined == SwitchConfined

\* C8 witness: the workers of both calls are reading in DPI-unaware mode at
\* the same time.
C8_Witness == Reading(1) /\ Reading(2)

====
